---- MODULE Spec2Model ----
(***************************************************************************)
(* Model of src/src/make-ros2-branches-consistent.ts: the batch that makes  *)
(* the default branch of every repository of ros2.repos equal to one       *)
(* target branch, installs a mirror workflow for the old branch, retargets *)
(* the open pull requests and rewrites the two manifests.                  *)
(*                                                                         *)
(* The remote hosting API, the git transport and the two manifest parsers  *)
(* (./github, ./cache, ./file-system, ./repos-file, ./distribution-file)   *)
(* are imported by the script; their effect on the remote state is         *)
(* modelled from their documented contract.  Each of their calls either    *)
(* returns or throws.                                                      *)
(***************************************************************************)
EXTENDS Integers, Sequences, FiniteSets, TLC

\* ------------------------------------------------------------------ bounds
\* Number of repositories listed in ros2.repos.
NumRepos == 2
\* Number of times the whole batch may be started (SpecRerun, SpecCrash).
MaxRuns == 2

\* ------------------------------------------------------------ the inputs
\* newBranch: the target branch of the run (parameter, line 22).
NewBranch == "rolling"
\* A branch other than the target, the default of a repository to migrate.
OldBranch == "master"

\* The repositories ros2.repos may list, in manifest order.
RepoTable ==
  << [org |-> "ros2", name |-> "rclcpp"],
     [org |-> "ament", name |-> "ament_cmake"],
     [org |-> "ros", name |-> "urdfdom"],
     [org |-> "eProsima", name |-> "Fast-DDS"] >>

\* `${repo.org}/${repo.name}` (lines 65, 67, 92-94): the key of a repository.
FullName(repo) == <<repo.org, repo.name>>

RepoKeys == {FullName(RepoTable[k]) : k \in 1..NumRepos}
RepoNames == {RepoTable[k].name : k \in 1..NumRepos}

\* e.message of an exception thrown by an imported call.
ErrMsgs == {"request failed"}

\* What a repository looks like when the run starts: its default branch on
\* the remote, the version ros2.repos pins, and whether the mirror workflow
\* for (NewBranch, its default branch) is already in the checkout.
Profiles ==
  { [default |-> NewBranch, version |-> NewBranch, file |-> FALSE],
    [default |-> NewBranch, version |-> OldBranch, file |-> FALSE],
    [default |-> OldBranch, version |-> OldBranch, file |-> FALSE],
    [default |-> OldBranch, version |-> OldBranch, file |-> TRUE] }

VARIABLES
  isDryRun,        \* parameter isDryRun
  reposToExclude,  \* parameter reposToExclude, a set of org/name keys
  reposFile,       \* ros2.repos as downloaded: sequence of [org, name, version]
  distFile,        \* distribution.yaml as downloaded: name -> version
  remoteDefault,   \* remote: key -> default branch
  remoteBranches,  \* remote: key -> set of branches
  prBase,          \* remote: key -> base branch of the repository's open PR
  workflowFiles,   \* checkout: key -> set of workflow file paths present
  repos,           \* in memory: the repository list (line 48)
  distribution,    \* in memory: the distribution manifest (line 61)
  errors,          \* in memory: the error list (line 63)
  oldBranch,       \* in memory: the queried default branch (line 72)
  i,               \* index of the repository the loop is at
  pc,              \* position of the run
  written,         \* the files written so far: sequence of [path, content]
  console,         \* the lines logged so far
  calls,           \* history: the imported calls made so far
  errPhase,        \* history: the step each entry of errors came from
  outcomes,        \* history: the outcome of each repository handled
  run,             \* history: number of the run (1 = first)
  start,           \* history: the remote state when the first run started
  prevRuns         \* history: how each earlier run ended

vars ==
  << isDryRun, reposToExclude, reposFile, distFile, remoteDefault,
     remoteBranches, prBase, workflowFiles, repos, distribution, errors,
     oldBranch, i, pc, written, console, calls, errPhase, outcomes, run,
     start, prevRuns >>

config == << isDryRun, reposToExclude, reposFile, distFile, start >>
remote == << remoteDefault, remoteBranches, prBase >>

\* ------------------------------------------------- the script's own terms
\* reposToExclude.includes(`${repo.org}/${repo.name}`) (line 65)
IsExcludedAlways(repo) == FALSE
IsExcluded(repo) == FullName(repo) \in reposToExclude

\* oldBranch !== newBranch (line 73)
NeedsMigrationAlways(old) == TRUE
NeedsMigration(old) == old # NewBranch

\* join(repoPath, '.github', 'workflows', `mirror-${newBranch}-to-${oldBranch}.yaml`)
\* (lines 165-170); repoPath is join(cacheDir, reposBranch, org, name) (line 75)
MigrationWorkflowFilePath(repo, new, old) ==
  << repo.org, repo.name, ".github", "workflows", "mirror", new, "to", old >>

\* existsSync(migrationWorkflowFilePath) (line 171)
WorkflowFileExistsSwapped(repo, old) ==
  MigrationWorkflowFilePath(repo, old, NewBranch) \in workflowFiles[FullName(repo)]
WorkflowFileExists(repo, old) ==
  MigrationWorkflowFilePath(repo, NewBranch, old) \in workflowFiles[FullName(repo)]

\* The isDryRun handed to createCommitAndPushFile (line 194).
CommitDryRun == isDryRun

\* if (!isDryRun) (line 214): the change step makes its remote calls.
ChangeIsLiveAlways == TRUE
ChangeIsLive == ~isDryRun

\* The label of the two catch blocks (lines 92 and 108).
MirrorErrorLabel == "Error changing default branch and retargetting PRs on"
ChangeErrorLabel == "Error changing default branch and retargetting PRs on"

\* The message pushed by the catch of the mirror step (lines 92-96).
MirrorErrorMessage(repo, e) ==
  [label |-> MirrorErrorLabel, repo |-> FullName(repo), msg |-> e]
\* The message pushed by the catch of the change step (lines 108-112).
ChangeErrorMessage(repo, e) ==
  [label |-> ChangeErrorLabel, repo |-> FullName(repo), msg |-> e]

\* Where the run goes after the mirror step, thrown or not (lines 91-99).
AfterMirrorSkipOnThrow(threw) == IF threw THEN "update" ELSE "change"
AfterMirror(threw) == "change"

\* Where the change step goes when a call throws at position p: to its catch
\* (lines 107-113), which ends the step.
AfterChangeThrowContinue(p) ==
  IF p = "change" THEN "setDefault" ELSE IF p = "setDefault" THEN "retarget" ELSE "update"
AfterChangeThrow(p) == "update"

\* repo.version = newBranch (line 115)
UpdatedVersionKept(repo) == repo.version
UpdatedVersion(repo) == NewBranch

\* reposBranch and rosDistroDirectory (parameters, lines 23-24).
ReposBranch == "master"
RosDistroDirectory == "rolling"

\* The paths of the four manifest files (lines 41-58), each a join of the
\* cache directory and a file name made of the listed parts.
ReposYamlPath == << "cache", "ros2.repos", ReposBranch, "yaml" >>
OutputReposYamlPathIsInput == ReposYamlPath
OutputReposYamlPath == << "cache", "ros2.repos", ReposBranch, "output", "yaml" >>
RosDistroYamlPath == << "cache", "distribution", RosDistroDirectory, "yaml" >>
OutputRosDistroYamlPath == << "cache", "distribution", RosDistroDirectory, "output", "yaml" >>

\* Where the run goes after the clone/update returned (lines 77-85).
AfterPullSkipMirror == "change"
AfterPull == "mirror"

\* Where the run goes after the catch of setDistributionVersion (lines
\* 118-122): the catch only logs, the loop goes on.
AfterDistributionCatchRethrow == "aborted"
AfterDistributionCatch == "loop"

\* errors.length > 0 (line 137)
HasErrorsNever(errs) == FALSE
HasErrors(errs) == Len(errs) > 0

\* What makeRos2BranchesConsistent hands its caller once the loop is over
\* (lines 137-143): it returns nothing, whatever the error list holds.
RunResult(errs) == "resolved: undefined"

\* --------------------------------------- the imported calls, by contract
\* getDefaultBranch({org, name})
GetDefaultBranch(repo) == remoteDefault[FullName(repo)]
\* createNewBranch: the new branch exists afterwards.
CreateNewBranch(branches, base, new) == branches \cup {new}
\* retargetPrs: a pull request whose base is fromBranch gets base toBranch.
RetargetPrs(base, from, to) == IF base = from THEN to ELSE base
\* setDistributionVersion throws when the name has no entry.
DistributionHas(dist, name) == name \in DOMAIN dist
SetDistributionVersion(dist, name, version) == [dist EXCEPT ![name] = version]

\* One imported call, as recorded in the history.
Call(op, repo, from, to, dry, ok) ==
  [op |-> op, repo |-> FullName(repo), from |-> from, to |-> to,
   dry |-> dry, ok |-> ok]
Line(text, repo) == [text |-> text, repo |-> FullName(repo)]
NoRepo == [org |-> "", name |-> ""]

\* --------------------------------------------------------------- Init
Init ==
  \E dry \in BOOLEAN, excl \in SUBSET RepoKeys,
     prof \in [1..NumRepos -> Profiles], inDist \in SUBSET RepoNames :
    /\ isDryRun = dry
    /\ reposToExclude = excl
    /\ reposFile =
         [k \in 1..NumRepos |->
            [org |-> RepoTable[k].org, name |-> RepoTable[k].name,
             version |-> prof[k].version]]
    /\ distFile = [n \in inDist |-> OldBranch]
    /\ remoteDefault =
         [key \in RepoKeys |->
            prof[CHOOSE k \in 1..NumRepos : FullName(RepoTable[k]) = key].default]
    /\ remoteBranches = [key \in RepoKeys |-> {remoteDefault[key]}]
    /\ prBase = remoteDefault
    /\ workflowFiles =
         [key \in RepoKeys |->
            LET k == CHOOSE k \in 1..NumRepos : FullName(RepoTable[k]) = key
            IN IF prof[k].file
               THEN {MigrationWorkflowFilePath(RepoTable[k], NewBranch, prof[k].default)}
               ELSE {}]
    /\ repos = << >>
    /\ distribution = << >>
    /\ errors = << >>
    /\ oldBranch = ""
    /\ i = 0
    /\ pc = "setup"
    /\ written = << >>
    /\ console = << >>
    /\ calls = << >>
    /\ errPhase = << >>
    /\ outcomes = << >>
    /\ run = 1
    /\ start = [default |-> remoteDefault, pr |-> prBase, files |-> workflowFiles]
    /\ prevRuns = << >>

\* ------------------------------------------------------------- actions
\* Lines 38-63: cache directory, download and parse of the two manifests.
\* Any of these calls may throw, which rejects the run before the loop.
Setup ==
  /\ pc = "setup"
  /\ \/ /\ repos' = reposFile
        /\ distribution' = distFile
        /\ errors' = << >>
        /\ i' = 1
        /\ pc' = "loop"
        /\ written' = written \o << [path |-> ReposYamlPath, content |-> reposFile],
                                    [path |-> RosDistroYamlPath, content |-> distFile] >>
        /\ calls' = calls \o << Call("downloadFile", NoRepo, "", "", FALSE, TRUE),
                                Call("downloadFile", NoRepo, "", "", FALSE, TRUE) >>
     \/ /\ pc' = "aborted"
        /\ calls' = Append(calls, Call("downloadFile", NoRepo, "", "", FALSE, FALSE))
        /\ UNCHANGED << repos, distribution, errors, i, written >>
  /\ UNCHANGED << config, remote, workflowFiles, oldBranch, console, errPhase,
                  outcomes, run, prevRuns >>

\* Lines 64-70: a repository on the exclude list is skipped.
SkipExcluded ==
  /\ pc = "loop"
  /\ i <= Len(repos)
  /\ IsExcluded(repos[i])
  /\ console' = Append(console, Line("Skipping", repos[i]))
  /\ outcomes' = Append(outcomes, [repo |-> FullName(repos[i]), outcome |-> "skipped-excluded"])
  /\ i' = i + 1
  /\ UNCHANGED << config, remote, workflowFiles, repos, distribution, errors,
                  oldBranch, pc, written, calls, errPhase, run, prevRuns >>

\* Lines 72-74 and 123-127: the default branch is queried (outside any try);
\* a repository already on the target branch is left alone.
QueryDefaultBranch ==
  /\ pc = "loop"
  /\ i <= Len(repos)
  /\ ~IsExcluded(repos[i])
  /\ \/ /\ calls' = Append(calls, Call("getDefaultBranch", repos[i], "", GetDefaultBranch(repos[i]), FALSE, TRUE))
        /\ oldBranch' = GetDefaultBranch(repos[i])
        /\ IF NeedsMigration(oldBranch')
           THEN /\ console' = Append(console, Line("Processing", repos[i]))
                /\ pc' = "pull"
                /\ UNCHANGED << i, outcomes >>
           ELSE /\ console' = Append(console, Line("Doing nothing - already has the default branch", repos[i]))
                /\ outcomes' = Append(outcomes, [repo |-> FullName(repos[i]), outcome |-> "no-op-already-target"])
                /\ i' = i + 1
                /\ pc' = "loop"
     \/ /\ calls' = Append(calls, Call("getDefaultBranch", repos[i], "", "", FALSE, FALSE))
        /\ pc' = "aborted"
        /\ UNCHANGED << oldBranch, console, i, outcomes >>
  /\ UNCHANGED << config, remote, workflowFiles, repos, distribution, errors,
                  written, errPhase, run, prevRuns >>

\* Lines 75-82: the checkout is cloned or updated (outside any try).
PullGitRepo ==
  /\ pc = "pull"
  /\ \/ /\ calls' = Append(calls, Call("pullGitRepo", repos[i], "", repos[i].version, FALSE, TRUE))
        /\ console' = Append(console, Line("pullMessage", repos[i]))
        /\ pc' = AfterPull
     \/ /\ calls' = Append(calls, Call("pullGitRepo", repos[i], "", repos[i].version, FALSE, FALSE))
        /\ pc' = "aborted"
        /\ UNCHANGED console
  /\ UNCHANGED << config, remote, workflowFiles, repos, distribution, errors,
                  oldBranch, i, written, errPhase, outcomes, run, prevRuns >>

\* Lines 84-97 and 153-198: the mirror-workflow step and its catch.
PushMirrorWorkflow ==
  /\ pc = "mirror"
  /\ LET repo == repos[i]
         path == MigrationWorkflowFilePath(repo, NewBranch, oldBranch)
     IN \/ /\ WorkflowFileExists(repo, oldBranch)
           /\ console' = Append(console, Line("Doing nothing - Workflow file already exists", repo))
           /\ pc' = AfterMirror(FALSE)
           /\ UNCHANGED << workflowFiles, errors, errPhase, calls >>
        \/ /\ ~WorkflowFileExists(repo, oldBranch)
           /\ calls' = Append(calls, Call("createCommitAndPushFile", repo, NewBranch, oldBranch, CommitDryRun, TRUE))
           /\ workflowFiles' =
                IF CommitDryRun THEN workflowFiles
                ELSE [workflowFiles EXCEPT ![FullName(repo)] = @ \cup {path}]
           /\ console' = Append(console, Line(IF CommitDryRun THEN "Would commit and push" ELSE "Committed and pushed", repo))
           /\ pc' = AfterMirror(FALSE)
           /\ UNCHANGED << errors, errPhase >>
        \/ /\ ~WorkflowFileExists(repo, oldBranch)
           /\ \E e \in ErrMsgs :
                /\ calls' = Append(calls, Call("createCommitAndPushFile", repo, NewBranch, oldBranch, CommitDryRun, FALSE))
                /\ errors' = Append(errors, MirrorErrorMessage(repo, e))
                /\ errPhase' = Append(errPhase, "mirror")
                /\ console' = Append(console, [text |-> "ERROR", repo |-> FullName(repo), entry |-> MirrorErrorMessage(repo, e)])
           /\ pc' = AfterMirror(TRUE)
           /\ UNCHANGED workflowFiles
  /\ UNCHANGED << config, remote, repos, distribution, oldBranch, i, written,
                  outcomes, run, prevRuns >>

\* The catch of the change step (lines 107-113).
ChangeCatch(op, from, to) ==
  \E e \in ErrMsgs :
    /\ calls' = Append(calls, Call(op, repos[i], from, to, FALSE, FALSE))
    /\ errors' = Append(errors, ChangeErrorMessage(repos[i], e))
    /\ errPhase' = Append(errPhase, "change")
    /\ console' = Append(console, [text |-> "ERROR", repo |-> FullName(repos[i]), entry |-> ChangeErrorMessage(repos[i], e)])
    /\ pc' = AfterChangeThrow(pc)

\* Lines 229-232: in dry-run the change step is one log line.
DryRunChange ==
  /\ pc = "change"
  /\ ~ChangeIsLive
  /\ console' = Append(console, Line("Would create a new branch and retarget PRs", repos[i]))
  /\ pc' = "update"
  /\ UNCHANGED << config, remote, workflowFiles, repos, distribution, errors,
                  oldBranch, i, written, calls, errPhase, outcomes, run, prevRuns >>

\* Lines 214-220: createNewBranch from the old branch.
CreateNewBranchStep ==
  /\ pc = "change"
  /\ ChangeIsLive
  /\ \/ /\ calls' = Append(calls, Call("createNewBranch", repos[i], oldBranch, NewBranch, FALSE, TRUE))
        /\ remoteBranches' =
             [remoteBranches EXCEPT ![FullName(repos[i])] = CreateNewBranch(@, oldBranch, NewBranch)]
        /\ pc' = "setDefault"
        /\ UNCHANGED << errors, errPhase, console >>
     \/ /\ ChangeCatch("createNewBranch", oldBranch, NewBranch)
        /\ UNCHANGED remoteBranches
  /\ UNCHANGED << config, remoteDefault, prBase, workflowFiles, repos, distribution,
                  oldBranch, i, written, outcomes, run, prevRuns >>

\* Line 221: setDefaultBranch to the new branch.
SetDefaultBranchStep ==
  /\ pc = "setDefault"
  /\ \/ /\ calls' = Append(calls, Call("setDefaultBranch", repos[i], "", NewBranch, FALSE, TRUE))
        /\ remoteDefault' = [remoteDefault EXCEPT ![FullName(repos[i])] = NewBranch]
        /\ pc' = "retarget"
        /\ UNCHANGED << errors, errPhase, console >>
     \/ /\ ChangeCatch("setDefaultBranch", "", NewBranch)
        /\ UNCHANGED remoteDefault
  /\ UNCHANGED << config, remoteBranches, prBase, workflowFiles, repos, distribution,
                  oldBranch, i, written, outcomes, run, prevRuns >>

\* Lines 222-228: retargetPrs from the old branch to the new one.
RetargetPrsStep ==
  /\ pc = "retarget"
  /\ \/ /\ calls' = Append(calls, Call("retargetPrs", repos[i], oldBranch, NewBranch, FALSE, TRUE))
        /\ prBase' = [prBase EXCEPT ![FullName(repos[i])] = RetargetPrs(@, oldBranch, NewBranch)]
        /\ console' = Append(console, Line("Updated default branch and retargetted PRs", repos[i]))
        /\ pc' = "update"
        /\ UNCHANGED << errors, errPhase >>
     \/ /\ ChangeCatch("retargetPrs", oldBranch, NewBranch)
        /\ UNCHANGED prBase
  /\ UNCHANGED << config, remoteDefault, remoteBranches, workflowFiles, repos,
                  distribution, oldBranch, i, written, outcomes, run, prevRuns >>

\* The entries of errors that name the repository.
ErrorsOf(key) == {k \in 1..Len(errors) : errors[k].repo = key}

\* Lines 115-122: the record's version and the distribution entry are set.
UpdateManifests ==
  /\ pc = "update"
  /\ repos' = [repos EXCEPT ![i].version = UpdatedVersion(repos[i])]
  /\ IF DistributionHas(distribution, repos[i].name)
     THEN /\ distribution' = SetDistributionVersion(distribution, repos[i].name, NewBranch)
          /\ pc' = "loop"
          /\ UNCHANGED console
     ELSE /\ console' = Append(console, Line("Could not update distribution.yaml", repos[i]))
          /\ pc' = AfterDistributionCatch
          /\ UNCHANGED distribution
  /\ outcomes' = Append(outcomes,
       [repo |-> FullName(repos[i]),
        outcome |-> IF ErrorsOf(FullName(repos[i])) = {} THEN "migrated" ELSE "migrated-with-errors"])
  /\ i' = i + 1
  /\ UNCHANGED << config, remote, workflowFiles, errors, oldBranch, written,
                  calls, errPhase, run, prevRuns >>

\* Lines 129-142: both output manifests are written and the summary printed.
WriteOutputs ==
  /\ pc = "loop"
  /\ i > Len(repos)
  /\ written' = written \o << [path |-> OutputReposYamlPath, content |-> repos],
                              [path |-> OutputRosDistroYamlPath, content |-> distribution] >>
  /\ console' =
       IF HasErrors(errors)
       THEN console \o << [text |-> "Finished with errors:", repo |-> FullName(NoRepo)] >>
                    \o [k \in 1..Len(errors) |-> [text |-> "summary", repo |-> errors[k].repo, entry |-> errors[k]]]
       ELSE Append(console, [text |-> "Done! - No errors", repo |-> FullName(NoRepo)])
  /\ pc' = "done"
  /\ UNCHANGED << config, remote, workflowFiles, repos, distribution, errors,
                  oldBranch, i, calls, errPhase, outcomes, run, prevRuns >>

Next ==
  \/ Setup
  \/ SkipExcluded
  \/ QueryDefaultBranch
  \/ PullGitRepo
  \/ PushMirrorWorkflow
  \/ DryRunChange
  \/ CreateNewBranchStep
  \/ SetDefaultBranchStep
  \/ RetargetPrsStep
  \/ UpdateManifests
  \/ WriteOutputs

Spec == Init /\ [][Next]_vars

\* ------------------------------------------------- running the batch again
\* How the run that just ended is remembered.
RunSummary ==
  [end |-> pc, nerrors |-> Len(errors),
   threw |-> \E k \in 1..Len(calls) : ~calls[k].ok]

\* A new invocation of makeRos2BranchesConsistent with the same parameters:
\* the remote state and the cache directory are as the earlier run left them,
\* everything in memory starts afresh (lines 38-63).
StartAgain ==
  /\ run < MaxRuns
  /\ run' = run + 1
  /\ prevRuns' = Append(prevRuns, RunSummary)
  /\ repos' = << >>
  /\ distribution' = << >>
  /\ errors' = << >>
  /\ oldBranch' = ""
  /\ i' = 0
  /\ pc' = "setup"
  /\ written' = << >>
  /\ console' = << >>
  /\ calls' = << >>
  /\ errPhase' = << >>
  /\ outcomes' = << >>
  /\ UNCHANGED << config, remote, workflowFiles >>

\* The batch is run again after a run that completed.
Rerun ==
  /\ pc = "done"
  /\ StartAgain

\* The operator kills the process between two calls of the run (section 5 of
\* the specification: no cancellation, the remote is left as it is).
Crash ==
  /\ pc \in {"loop", "pull", "mirror", "change", "setDefault", "retarget", "update"}
  /\ pc' = "crashed"
  /\ UNCHANGED << config, remote, workflowFiles, repos, distribution, errors,
                  oldBranch, i, written, console, calls, errPhase, outcomes,
                  run, prevRuns >>

\* The batch is run again after the crash.
RerunAfterCrash ==
  /\ pc = "crashed"
  /\ StartAgain

\* The runs in sequence start from the initial states in which distribution.yaml
\* lists every repository: what a later run calls on the remote does not
\* depend on the distribution manifest, which each run loads afresh.
InitListed == Init /\ DOMAIN distFile = RepoNames

NextRerun == Next \/ Rerun
SpecRerun == InitListed /\ [][NextRerun]_vars

NextCrash == Next \/ Crash \/ RerunAfterCrash
SpecCrash == InitListed /\ [][NextCrash]_vars

\* ------------------------------------------------------ reading the history
ChangeOps == {"createNewBranch", "setDefaultBranch", "retargetPrs"}
MutationOps == ChangeOps \cup {"createCommitAndPushFile"}

\* A call that changes the remote: a change-step call, or a commit-and-push
\* that was not told to be a dry run.
LiveMutation(c) ==
  \/ c.op \in ChangeOps
  \/ c.op = "createCommitAndPushFile" /\ ~c.dry

CallsFor(key, ops) ==
  LET Test(c) == c.repo = key /\ c.op \in ops IN SelectSeq(calls, Test)

Finished(key) == \E k \in 1..Len(outcomes) : outcomes[k].repo = key
OutcomesOf(key) == {k \in 1..Len(outcomes) : outcomes[k].repo = key}
PhaseErrorsOf(key, phase) ==
  {k \in 1..Len(errors) : errors[k].repo = key /\ errPhase[k] = phase}

MirrorThrew(key) ==
  \E k \in 1..Len(calls) :
    calls[k].op = "createCommitAndPushFile" /\ calls[k].repo = key /\ ~calls[k].ok
ChangeAttempted(key) ==
  \/ \E k \in 1..Len(calls) : calls[k].op = "createNewBranch" /\ calls[k].repo = key
  \/ \E k \in 1..Len(console) :
       console[k] = [text |-> "Would create a new branch and retarget PRs", repo |-> key]

FileWritten(path) == \E k \in 1..Len(written) : written[k].path = path
FileContent(path) == written[CHOOSE k \in 1..Len(written) : written[k].path = path].content

\* ------------------------------------------------------------------ C1
\* C1 as stated: in dry-run no call to create-branch, set-default-branch,
\* retarget-prs or commit-and-push is made.
C1_NoMutationCallInDryRun ==
  isDryRun => \A k \in 1..Len(calls) : calls[k].op \notin MutationOps

\* C1 amended: in dry-run no call to create-branch, set-default-branch or
\* retarget-prs is made, commit-and-push is only ever called with its dry-run
\* flag set, and the remote and the checkouts stay as they were.
C1_DryRunMakesNoLiveCall ==
  isDryRun =>
    /\ \A k \in 1..Len(calls) :
         /\ calls[k].op \notin ChangeOps
         /\ calls[k].op = "createCommitAndPushFile" => calls[k].dry
    /\ remoteDefault = start.default
    /\ prBase = start.pr
    /\ workflowFiles = start.files

C1_Witness ==
  /\ isDryRun
  /\ pc = "done"
  /\ \E k \in 1..Len(calls) : calls[k].op = "createCommitAndPushFile" /\ calls[k].dry
  /\ \E key \in RepoKeys : ChangeAttempted(key)

\* ------------------------------------------------------------------ C2
\* C2 as stated: a failure of a remote call made while processing a
\* repository never aborts the batch; a run only aborts before the loop.
C2_RepositoryFailureNeverAborts ==
  pc = "aborted" => repos = << >>

\* ------------------------------------------------------------------ C3
\* C3: when the mirror-workflow step throws for a repository, the change
\* step is attempted next, and once the run has ended the repository has an
\* outcome and its record's version is the target branch.
C3_PartialFailureIsolation ==
  \A idx \in 1..Len(repos) :
    LET key == FullName(repos[idx]) IN
      MirrorThrew(key) =>
        /\ (pc = "change" /\ i = idx) \/ ChangeAttempted(key)
        /\ Finished(key) => repos[idx].version = NewBranch
        /\ pc \in {"done", "aborted"} => Finished(key)

C3_Witness ==
  /\ pc = "done"
  /\ \E idx \in 1..Len(repos) :
       /\ MirrorThrew(FullName(repos[idx]))
       /\ ChangeAttempted(FullName(repos[idx]))
       /\ reposFile[idx].version # NewBranch
       /\ repos[idx].version = NewBranch

\* ------------------------------------------------------------------ C4
\* The end of a run of the batch in which nothing throws and nothing is
\* interrupted, computed from the state the first run started in.
Migrates(key) ==
  key \notin reposToExclude /\ start.default[key] # NewBranch
ExpectedDefault ==
  [key \in RepoKeys |->
     IF Migrates(key) /\ ~isDryRun THEN NewBranch ELSE start.default[key]]
ExpectedPrBase ==
  [key \in RepoKeys |->
     IF Migrates(key) /\ ~isDryRun
     THEN RetargetPrs(start.pr[key], start.default[key], NewBranch)
     ELSE start.pr[key]]
ExpectedFiles ==
  [key \in RepoKeys |->
     IF Migrates(key) /\ ~isDryRun
     THEN start.files[key] \cup
            {MigrationWorkflowFilePath([org |-> key[1], name |-> key[2]], NewBranch, start.default[key])}
     ELSE start.files[key]]
ExpectedVersions ==
  [idx \in 1..NumRepos |->
     IF Migrates(FullName(reposFile[idx])) THEN NewBranch ELSE reposFile[idx].version]
OutputVersions ==
  [idx \in 1..NumRepos |-> FileContent(OutputReposYamlPath)[idx].version]

AtUninterruptedEnd ==
  /\ remoteDefault = ExpectedDefault
  /\ prBase = ExpectedPrBase
  /\ workflowFiles = ExpectedFiles
  /\ OutputVersions = ExpectedVersions

NoCallThrew == \A k \in 1..Len(calls) : calls[k].ok

\* C4 as stated: a run started after an earlier run was interrupted ends,
\* when no call throws, in the state an uninterrupted run ends in.
C4_RerunAfterCrashConverges ==
  ( /\ run >= 2
    /\ pc = "done"
    /\ NoCallThrew
    /\ \A r \in 1..Len(prevRuns) : prevRuns[r].end = "crashed" /\ ~prevRuns[r].threw )
  => AtUninterruptedEnd

C7_AllConvergeOnTarget ==
  (pc = "done" /\ ~isDryRun /\ errors = << >>) =>
    \A idx \in 1..Len(repos) :
      FullName(repos[idx]) \notin reposToExclude =>
        /\ remoteDefault[FullName(repos[idx])] = NewBranch
        /\ FileContent(OutputReposYamlPath)[idx].version = NewBranch

\* C7 amended: after such a run every non-excluded repository has the target
\* branch as remote default branch; its version in the output repository
\* list is the target branch if its queried default branch differed from the
\* target, and the version of the input list otherwise.
C7_ConvergeExceptVersionOfNoOp ==
  (pc = "done" /\ ~isDryRun /\ errors = << >>) =>
    \A idx \in 1..Len(repos) :
      LET key == FullName(repos[idx]) IN
        key \notin reposToExclude =>
          /\ remoteDefault[key] = NewBranch
          /\ FileContent(OutputReposYamlPath)[idx].version =
               IF start.default[key] # NewBranch THEN NewBranch
               ELSE reposFile[idx].version

C7_Witness ==
  /\ pc = "done" /\ ~isDryRun /\ errors = << >> /\ run = 1
  /\ \E idx \in 1..Len(repos) :
       /\ outcomes[idx].outcome = "migrated"
       /\ reposFile[idx].version # NewBranch
       /\ FileContent(OutputReposYamlPath)[idx].version = NewBranch
  /\ \E idx \in 1..Len(repos) :
       /\ outcomes[idx].outcome = "no-op-already-target"
       /\ FileContent(OutputReposYamlPath)[idx].version # NewBranch

\* ------------------------------------------------------------------ C8
ChangeOrder == << "createNewBranch", "setDefaultBranch", "retargetPrs" >>

\* C8: the calls of the change step of a repository are a prefix of
\* create-branch, set-default-branch, retarget-prs, none follows one that
\* threw, a throw leaves exactly one error entry for the step, and a dry run
\* makes none of them.
C8_ChangeStepOrder ==
  \A key \in RepoKeys :
    LET s == CallsFor(key, ChangeOps) IN
      /\ Len(s) <= 3
      /\ \A j \in 1..Len(s) : s[j].op = ChangeOrder[j]
      /\ \A j \in 1..Len(s) : j < Len(s) => s[j].ok
      /\ Cardinality(PhaseErrorsOf(key, "change")) =
           IF \E j \in 1..Len(s) : ~s[j].ok THEN 1 ELSE 0
      /\ isDryRun => s = << >>

C8_Witness ==
  /\ pc = "done"
  /\ \E key \in RepoKeys :
       LET s == CallsFor(key, ChangeOps) IN
         /\ Len(s) = 2 /\ s[1].ok /\ ~s[2].ok
         /\ Cardinality(PhaseErrorsOf(key, "change")) = 1
  /\ \E key \in RepoKeys :
       LET s == CallsFor(key, ChangeOps) IN Len(s) = 3 /\ s[3].ok

\* ------------------------------------------------------------------ C9
\* C9 as stated: an error entry recorded for the mirror-workflow step is
\* labelled differently from an entry recorded for the change step of the
\* same repository, so the two can be told apart.
C9_ErrorEntriesNameTheirPhase ==
  \A j, k \in 1..Len(errors) :
    (errPhase[j] = "mirror" /\ errPhase[k] = "change" /\ errors[j].repo = errors[k].repo)
      => errors[j].label # errors[k].label

\* ------------------------------------------------------------------ C10
\* C10 as stated: once the run has ended every non-excluded repository of the
\* list has exactly one outcome and at most one error entry from each step.
C10_OneOutcomePerRepository ==
  (pc \in {"done", "aborted"} /\ repos # << >>) =>
    \A idx \in 1..Len(repos) :
      LET key == FullName(repos[idx]) IN
        key \notin reposToExclude =>
          /\ Cardinality(OutcomesOf(key)) = 1
          /\ Cardinality(PhaseErrorsOf(key, "mirror")) <= 1
          /\ Cardinality(PhaseErrorsOf(key, "change")) <= 1

C12_AbsentDistributionEntryIsTolerated ==
  [][ (pc = "update" /\ ~DistributionHas(distribution, repos[i].name)) =>
        /\ pc' = "loop"
        /\ i' = i + 1
        /\ errors' = errors
        /\ distribution' = distribution
        /\ repos'[i].version = NewBranch
        /\ console' = Append(console, Line("Could not update distribution.yaml", repos[i]))
    ]_vars

C12_Witness ==
  /\ pc = "done"
  /\ errors = << >>
  /\ \E idx \in 1..(Len(repos) - 1) :
       /\ repos[idx].name \notin DOMAIN distFile
       /\ outcomes[idx].outcome = "migrated"
       /\ \E k \in 1..Len(console) :
            console[k] = Line("Could not update distribution.yaml", repos[idx])
       /\ outcomes[idx + 1].outcome = "migrated"
       /\ repos[idx + 1].name \in DOMAIN distFile
       /\ FileContent(OutputRosDistroYamlPath)[repos[idx + 1].name] = NewBranch

\* ------------------------------------------------------------------ C13
\* C13 as stated: a completed run whose error list is not empty ends with a
\* result that differs from the result of a completed run without errors.
C13_ResultReflectsErrors ==
  (pc = "done" /\ errors # << >>) => RunResult(errors) # RunResult(<< >>)

\* ------------------------------------------------------------------ C14
LinesWith(text) == LET Test(c) == c.text = text IN SelectSeq(console, Test)

\* C14: every entry of the error list was logged as an ERROR line, with its
\* org/name, when it was recorded; once the run has completed the summary
\* lines are exactly the entries of the error list, in order, under the
\* heading "Finished with errors:", and "Done! - No errors" is printed if and
\* only if the error list is empty.  Nothing of the summary is printed before.
C14_SummaryReprintsErrors ==
  /\ Len(LinesWith("ERROR")) = Len(errors)
  /\ \A k \in 1..Len(errors) :
       /\ LinesWith("ERROR")[k].entry = errors[k]
       /\ LinesWith("ERROR")[k].repo = errors[k].repo
       /\ errors[k].repo \in RepoKeys
  /\ pc = "done" =>
       /\ Len(LinesWith("summary")) = Len(errors)
       /\ \A k \in 1..Len(errors) : LinesWith("summary")[k].entry = errors[k]
       /\ Len(LinesWith("Done! - No errors")) = (IF errors = << >> THEN 1 ELSE 0)
       /\ Len(LinesWith("Finished with errors:")) = (IF errors = << >> THEN 0 ELSE 1)
  /\ pc # "done" =>
       /\ LinesWith("summary") = << >>
       /\ LinesWith("Done! - No errors") = << >>
       /\ LinesWith("Finished with errors:") = << >>

C14_Witness ==
  /\ pc = "done"
  /\ Len(errors) = 2
  /\ errPhase = << "mirror", "change" >>
  /\ Len(LinesWith("summary")) = 2
  /\ Len(LinesWith("ERROR")) = 2

\* ------------------------------------------------------------------ C15
InputPaths == {ReposYamlPath, RosDistroYamlPath}
OutputPaths == {OutputReposYamlPath, OutputRosDistroYamlPath}
WritesTo(path) == {k \in 1..Len(written) : written[k].path = path}

\* C15: the two input paths are written only by the two downloads that load
\* them, before the loop; the two output paths differ from both input paths
\* and are written once each, with the repository list and the distribution
\* manifest as mutated, when the loop is over, and never before.
C15_InputsNeverOverwritten ==
  /\ OutputPaths \cap InputPaths = {}
  /\ \A k \in 1..Len(written) :
       written[k].path \in InputPaths =>
         /\ k <= 2
         /\ written[k].path = ReposYamlPath => written[k].content = reposFile
         /\ written[k].path = RosDistroYamlPath => written[k].content = distFile
  /\ \A p \in InputPaths : Cardinality(WritesTo(p)) <= 1
  /\ \A p \in OutputPaths :
       Cardinality(WritesTo(p)) = (IF pc = "done" THEN 1 ELSE 0)
  /\ pc = "done" =>
       /\ FileContent(OutputReposYamlPath) = repos
       /\ FileContent(OutputRosDistroYamlPath) = distribution
       /\ i > Len(repos)

C15_Witness ==
  /\ pc = "done"
  /\ Len(written) = 4
  /\ FileContent(OutputReposYamlPath) # reposFile
  /\ FileContent(OutputRosDistroYamlPath) # distFile
  /\ FileContent(ReposYamlPath) = reposFile

\* ------------------------------------------------------------------ C16
PulledOk(key) ==
  \E k \in 1..Len(calls) :
    calls[k].op = "pullGitRepo" /\ calls[k].repo = key /\ calls[k].ok
AlreadyExistsLogged(key) ==
  \E k \in 1..Len(console) :
    console[k] = [text |-> "Doing nothing - Workflow file already exists", repo |-> key]
HadWorkflowFile(key) ==
  MigrationWorkflowFilePath([org |-> key[1], name |-> key[2]], NewBranch, start.default[key])
    \in start.files[key]

\* C16: for a processed repository whose checkout already holds the mirror
\* workflow file for (target branch, its default branch), no commit-and-push
\* call is made and no mirror-step error is recorded; once the mirror step is
\* over, "already exists" was logged and the change step is attempted next.
C16_ExistingWorkflowFileIsKept ==
  \A idx \in 1..Len(repos) :
    LET key == FullName(repos[idx]) IN
      (Migrates(key) /\ HadWorkflowFile(key)) =>
        /\ \A k \in 1..Len(calls) :
             ~(calls[k].op = "createCommitAndPushFile" /\ calls[k].repo = key)
        /\ PhaseErrorsOf(key, "mirror") = {}
        /\ workflowFiles[key] = start.files[key]
        /\ (PulledOk(key) /\ ~(i = idx /\ pc = "mirror")) =>
             /\ AlreadyExistsLogged(key)
             /\ (i = idx /\ pc = "change") \/ ChangeAttempted(key)

C16_Witness ==
  /\ pc = "done"
  /\ \E key \in RepoKeys :
       /\ Migrates(key)
       /\ HadWorkflowFile(key)
       /\ AlreadyExistsLogged(key)
       /\ \E k \in 1..Len(calls) : calls[k].op = "createNewBranch" /\ calls[k].repo = key

\* ------------------------------------------------------------------ C17
WouldLines(key) ==
  {k \in 1..Len(console) :
     console[k] = [text |-> "Would create a new branch and retarget PRs", repo |-> key]}

\* C17: in dry-run, a non-excluded repository whose default branch differs
\* from the target has, once it has been handled, exactly one "would create
\* new branch" line, the target branch as version of its record and of the
\* output manifest, and its remote default branch as it was; no other
\* repository has such a line.
C17_DryRunLogsOnceAndSetsVersion ==
  isDryRun =>
    \A idx \in 1..Len(repos) :
      LET key == FullName(repos[idx]) IN
        /\ Cardinality(WouldLines(key)) <= 1
        /\ ~Migrates(key) => WouldLines(key) = {}
        /\ (Migrates(key) /\ Finished(key)) =>
             /\ Cardinality(WouldLines(key)) = 1
             /\ repos[idx].version = NewBranch
             /\ remoteDefault[key] = start.default[key]
             /\ FileWritten(OutputReposYamlPath) =>
                  FileContent(OutputReposYamlPath)[idx].version = NewBranch

C17_Witness ==
  /\ isDryRun
  /\ pc = "done"
  /\ \E idx \in 1..Len(repos) :
       /\ Migrates(FullName(repos[idx]))
       /\ reposFile[idx].version # NewBranch
       /\ Cardinality(WouldLines(FullName(repos[idx]))) = 1
       /\ FileContent(OutputReposYamlPath)[idx].version = NewBranch
       /\ remoteDefault[FullName(repos[idx])] = OldBranch

\* ------------------------------------------------------------------ C18
IndexOf(key) == CHOOSE k \in 1..NumRepos : FullName(RepoTable[k]) = key
Rank(op) ==
  CASE op = "getDefaultBranch" -> 1
    [] op = "pullGitRepo" -> 2
    [] op = "createCommitAndPushFile" -> 3
    [] op = "createNewBranch" -> 4
    [] op = "setDefaultBranch" -> 5
    [] op = "retargetPrs" -> 6
RepoCalls == LET Test(c) == c.repo \in RepoKeys IN SelectSeq(calls, Test)
CalledOk(key, op) ==
  \E k \in 1..Len(calls) : calls[k].op = op /\ calls[k].repo = key /\ calls[k].ok
Called(key, op) ==
  \E k \in 1..Len(calls) : calls[k].op = op /\ calls[k].repo = key
MirrorStepOver(key) ==
  Called(key, "createCommitAndPushFile") \/ AlreadyExistsLogged(key)

\* C18 (each call is compared with the one made just before it, which orders
\* every pair): the calls are made repository by repository in manifest order, and
\* for one repository in the order query, clone/update, commit-and-push,
\* create-branch, set-default-branch, retarget-prs, each only after the one
\* before it returned; the change step starts only when the mirror step is
\* over; the record is updated only after the change step; and nothing is
\* called or updated for a repository the loop has not reached.
C18_SequentialInManifestOrder ==
  /\ LET rc == RepoCalls IN
       \A k \in 2..Len(rc) :
         \/ IndexOf(rc[k - 1].repo) < IndexOf(rc[k].repo)
         \/ /\ rc[k - 1].repo = rc[k].repo
            /\ Rank(rc[k - 1].op) < Rank(rc[k].op)
  /\ \A idx \in 1..Len(repos) :
       LET key == FullName(repos[idx]) IN
         /\ idx > i => /\ \A k \in 1..Len(calls) : calls[k].repo # key
                       /\ repos[idx].version = reposFile[idx].version
                       /\ ~Finished(key)
         /\ Called(key, "pullGitRepo") => CalledOk(key, "getDefaultBranch")
         /\ MirrorStepOver(key) => PulledOk(key)
         /\ ChangeAttempted(key) => MirrorStepOver(key)
         /\ Called(key, "setDefaultBranch") => CalledOk(key, "createNewBranch")
         /\ Called(key, "retargetPrs") => CalledOk(key, "setDefaultBranch")
         /\ (\E k \in OutcomesOf(key) :
               outcomes[k].outcome \in {"migrated", "migrated-with-errors"})
              => ChangeAttempted(key) /\ idx < i
         /\ repos[idx].version # reposFile[idx].version => Finished(key)
  /\ \A k \in 1..Len(outcomes) : outcomes[k].repo = FullName(repos[k])

C18_Witness ==
  /\ pc = "done"
  /\ Len(RepoCalls) = 6 * NumRepos
  /\ \A k \in 1..Len(outcomes) : outcomes[k].outcome = "migrated"

\* ------------------------------------------------------------------ C19
\* C19: every commit-and-push, create-branch, set-default-branch and
\* retarget-prs call is made for a non-excluded repository whose query and
\* clone/update returned before it, with the target branch as new branch and
\* the branch that query returned as old branch, the two being different.
C19_MutationCallsUseQueriedBranches ==
  \A k \in 1..Len(calls) :
    LET c == calls[k] IN
      c.op \in MutationOps =>
        /\ c.repo \in RepoKeys \ reposToExclude
        /\ \E j \in 1..(k - 1) :
             /\ calls[j].op = "getDefaultBranch" /\ calls[j].repo = c.repo /\ calls[j].ok
             /\ calls[j].to # NewBranch
             /\ c.op \in {"createNewBranch", "retargetPrs"} =>
                  c.from = calls[j].to /\ c.to = NewBranch /\ c.from # c.to
             /\ c.op = "setDefaultBranch" => c.to = NewBranch
             /\ c.op = "createCommitAndPushFile" =>
                  c.from = NewBranch /\ c.to = calls[j].to
        /\ \E j \in 1..(k - 1) :
             calls[j].op = "pullGitRepo" /\ calls[j].repo = c.repo /\ calls[j].ok

C19_Witness ==
  /\ pc = "done"
  /\ \E key \in RepoKeys :
       /\ \E k \in 1..Len(calls) :
            /\ calls[k].op = "retargetPrs" /\ calls[k].repo = key /\ calls[k].ok
            /\ calls[k].from = OldBranch /\ calls[k].to = NewBranch
       /\ \E k \in 1..Len(calls) :
            /\ calls[k].op = "createNewBranch" /\ calls[k].repo = key
            /\ calls[k].from = OldBranch /\ calls[k].to = NewBranch
  /\ \E key \in RepoKeys : start.default[key] = NewBranch /\ key \notin reposToExclude

====
